---- MODULE Spec2Model ----
(***************************************************************************)
(* A model of the CSP-style channel of ggoodman/channels: the Queue of     *)
(* src/src/queue.ts and the ChannelImpl of src/src/channelImpl.ts (put,    *)
(* take, read, close, select and the withdrawal handle of a pending take). *)
(* Promises are modelled by their settled state; a resolve of an already   *)
(* settled promise changes nothing, as in JavaScript.                      *)
(***************************************************************************)
EXTENDS Integers, Sequences, FiniteSets, TLC

\* ---------------------------------------------------------------- bounds
\* the number of puts, takes and selects issued in one behaviour of Spec
MaxOps == 3
\* the same, in one behaviour of SpecChan
MaxChanOps == 6
\* the largest buffer size a channel is created with
MaxBufferSize == 1
\* the number of puts in one behaviour of SpecIter
MaxIterPuts == 3
\* the number of takes and selects in one behaviour of SpecIter
MaxIterCalls == 3

\* the largest capacity given to a reader queue where queues fill up
MaxReadQueueSize == 1

\* the number of puts, takes and selects issued where queues fill up
MaxFullOps == 2

\* the maxSize of the Queue used on its own
MaxQueueSize == 3

\* the number of pushes on the Queue used on its own
MaxQueuePushes == 4

\* ------------------------------------------------------ program constants
\* The default maxSize of a Queue is Number.MAX_SAFE_INTEGER (2^53 - 1), which
\* is beyond the integers of the model checker: it is held at the largest one,
\* which no queue of the model reaches either.
kMaxSize == 2147483647

Chans == {"a", "b"}
\* The payload of a message is opaque to the channel; the n-th put that is
\* accepted carries the n-th payload, so that every message is told apart.
Payloads == <<"m1", "m2", "m3", "m4", "m5", "m6", "m7", "m8", "m9", "m10">>
Values == { Payloads[i] : i \in 1..Len(Payloads) }

\* the mappings handed to select: key i of a mapping is its i-th entry
MappingsOf(C) ==
  {<<>>} \cup { <<c>> : c \in C } \cup { <<c, d>> : <<c, d>> \in { p \in C \X C : p[1] # p[2] } }

\* ------------------------------------------------------------------ Queue
\* items is the array kItems: index 1 is the newest entry (unshift), the last
\* index is the oldest.
QueueSize(items) == Len(items)

QueuePeek(items) == items[Len(items)]

\* a pop that empties the array
QueuePopClears(items) == [item |-> items[Len(items)], rest |-> <<>>]

\* Array.prototype.pop: removes and returns the last element
QueuePop(items) == [item |-> items[Len(items)], rest |-> SubSeq(items, 1, Len(items) - 1)]

\* if (this.size >= this[kMaxSize]) return false
QueueCanPush(items, max) == ~(QueueSize(items) >= max)

\* push in place of unshift: with pop, the queue becomes a stack
QueuePushLast(items, item) == Append(items, item)

QueuePush(items, item) == <<item>> \o items

\* Array.prototype.indexOf: the first index holding item, 0 when absent
IndexOf(items, item) ==
  IF \E i \in 1..Len(items) : items[i] = item
  THEN CHOOSE i \in 1..Len(items) :
         items[i] = item /\ \A j \in 1..(i - 1) : items[j] # item
  ELSE 0

\* a withdrawal function that removes nothing
QueueDisposeNone(items, item) == items

\* the function returned by push: indexOf, then splice(idx, 1)
QueueDispose(items, item) ==
  LET idx == IndexOf(items, item)
  IN IF idx >= 1
     THEN SubSeq(items, 1, idx - 1) \o SubSeq(items, idx + 1, Len(items))
     ELSE items

\* ------------------------------------------------------------------ state
VARIABLES
  bufferSize,    \* kBufferSize of each channel
  closed,        \* kClosed of each channel
  messageQueue,  \* kMessageQueue of each channel: envelopes [msg, putCb, ts]
  readQueue,     \* kReadQueue of each channel: reader callbacks
  totalOrder,    \* the module-level counter totalOrder
  puts,          \* the promise of every put that did not throw
  takes,         \* the promise of every take
  selects,       \* the promise of every select that did not throw
  delivered,     \* per channel, the envelopes handed to consumers, in order
  lastOp,        \* the operation performed last and what it returned
  iter,          \* the async iterator a consumer runs, and what it yielded
  maxSize,       \* kMaxSize of the two queues of each channel
  queue          \* a Queue used on its own, and the functions its pushes returned

vars == <<bufferSize, closed, messageQueue, readQueue, totalOrder, puts, takes,
          selects, delivered, lastOp, iter, maxSize, queue>>

TakeReader(t) == [kind |-> "take", id |-> t, key |-> 0]
\* a callback that closes over a key shared by all iterations of the loop
SelectReaderSharedKey(s, k) == [kind |-> "select", id |-> s, key |-> 1]

SelectReader(s, k) == [kind |-> "select", id |-> s, key |-> k]

\* a result kept in a plain field, which every call overwrites
ResolveOverwrite(cur, v) == v

\* Promise resolve functions: only the first call settles the promise
Resolve(cur, v) == IF cur = "pending" THEN v ELSE cur

\* new Queue(): no items. entries names, for each item of the array, the push
\* that inserted it; tokens are the functions returned by the pushes so far,
\* each closing over its item.
NoQueue == [items |-> <<>>, entries |-> <<>>, tokens |-> <<>>]

\* no async iterator was created
NoIter ==
  [kind |-> "none", ch |-> "-", chs |-> <<>>, state |-> "none", cur |-> 0,
   yielded |-> <<>>]

Init ==
  /\ bufferSize \in [Chans -> 0..MaxBufferSize]
  /\ bufferSize["b"] = 0
  /\ closed = [c \in Chans |-> FALSE]
  /\ messageQueue = [c \in Chans |-> <<>>]
  /\ readQueue = [c \in Chans |-> <<>>]
  /\ totalOrder = 0
  /\ puts = <<>>
  /\ takes = <<>>
  /\ selects = <<>>
  /\ delivered = [c \in Chans |-> <<>>]
  /\ lastOp = [op |-> "new", ch |-> "-", id |-> 0, ret |-> "-"]
  /\ iter = NoIter
  /\ maxSize = [c \in Chans |-> [messageQueue |-> kMaxSize, readQueue |-> kMaxSize]]
  /\ queue = NoQueue

\* ------------------------------------------------------- reader callbacks
\* The callback of select (channelImpl.ts 270-278) runs every dispose function
\* of its select but its own; key i of select s registered on chs[i].
\* a callback that resolves without running the other dispose functions
DisposeOthersNone(rq, s, chs, k, i) == rq

RECURSIVE DisposeOthers(_, _, _, _, _)
DisposeOthers(rq, s, chs, k, i) ==
  IF i > Len(chs) THEN rq
  ELSE DisposeOthers(
         IF i # k THEN [rq EXCEPT ![chs[i]] = QueueDispose(@, SelectReader(s, i))]
         ELSE rq,
         s, chs, k, i + 1)

\* Invoking a reader callback r with v. w = [rq, tk, sl] holds the reader
\* queues and the take and select promises the callbacks act on.
ReaderCb(w, r, v) ==
  IF r.kind = "take"
  THEN [w EXCEPT !.tk[r.id].res = Resolve(@, v)]
  ELSE [w EXCEPT
          !.rq = DisposeOthers(w.rq, r.id, w.sl[r.id].chs, r.key, 1),
          !.sl[r.id] = IF @.value = "pending"
                       THEN [@ EXCEPT !.key = r.key, !.value = v]
                       ELSE @]

World == [rq |-> readQueue, tk |-> takes, sl |-> selects]

\* the puts, takes and selects issued so far
Issued == Len(puts) + Len(takes) + Len(selects)

\* --------------------------------------------------------------- close()
\* a close that may be repeated
CloseThrowsNever(c) == FALSE

CloseThrows(c) == closed[c]

\* an if in place of the while: only the oldest reader is invoked
DrainReadersOnce(w, c) ==
  IF QueueSize(w.rq[c]) = 0 THEN w
  ELSE LET p == QueuePop(w.rq[c])
       IN ReaderCb([w EXCEPT !.rq[c] = p.rest], p.item, "closed")

\* while (this[kReadQueue].size) { reader = pop(); reader(closed) }
RECURSIVE DrainReaders(_, _)
DrainReaders(w, c) ==
  IF QueueSize(w.rq[c]) = 0 THEN w
  ELSE LET p == QueuePop(w.rq[c])
       IN DrainReaders(ReaderCb([w EXCEPT !.rq[c] = p.rest], p.item, "closed"), c)

\* a close that leaves the message queue as it is
DrainMessagesSkip(mq, ps) == [mq |-> mq, ps |-> ps]

\* putCb(true) in place of putCb(false)
RECURSIVE DrainMessagesTrue(_, _)
DrainMessagesTrue(mq, ps) ==
  IF QueueSize(mq) = 0 THEN [mq |-> mq, ps |-> ps]
  ELSE LET p == QueuePop(mq)
       IN DrainMessagesTrue(p.rest, [ps EXCEPT ![p.item.putCb].res = Resolve(@, "true")])

\* while (this[kMessageQueue].size) { { putCb } = pop(); putCb(false) }
RECURSIVE DrainMessages(_, _)
DrainMessages(mq, ps) ==
  IF QueueSize(mq) = 0 THEN [mq |-> mq, ps |-> ps]
  ELSE LET p == QueuePop(mq)
       IN DrainMessages(p.rest, [ps EXCEPT ![p.item.putCb].res = Resolve(@, "false")])

\* the flag kept once for all channels instead of per channel
SetClosedShared(c) == [d \in Chans |-> TRUE]

\* this[kClosed] = true
SetClosed(c) == [closed EXCEPT ![c] = TRUE]

Close(c) ==
  IF CloseThrows(c)
  THEN /\ lastOp' = [op |-> "close", ch |-> c, id |-> 0, ret |-> "ChannelClosedError"]
       /\ UNCHANGED <<bufferSize, closed, messageQueue, readQueue, totalOrder,
                      puts, takes, selects, delivered>>
  ELSE LET w == DrainReaders(World, c)
           d == DrainMessages(messageQueue[c], puts)
       IN /\ closed' = SetClosed(c)
          /\ readQueue' = w.rq
          /\ takes' = w.tk
          /\ selects' = w.sl
          /\ puts' = d.ps
          /\ messageQueue' = [messageQueue EXCEPT ![c] = d.mq]
          /\ lastOp' = [op |-> "close", ch |-> c, id |-> 0, ret |-> "undefined"]
          /\ UNCHANGED <<bufferSize, totalOrder, delivered>>

\* ---------------------------------------------------------------- put()
\* a put that does not look at the closed flag
PutThrowsNever(c) == FALSE

PutThrows(c) == closed[c]

\* < in place of <=
PutAbsorbedStrict(size, buf) == size < buf

\* a put that resolves as soon as its message is queued
PutAbsorbedAlways(size, buf) == TRUE

\* an off-by-one: one message more than the buffer size is absorbed
PutAbsorbedOneMore(size, buf) == size <= buf + 1

\* if (this[kMessageQueue].size <= this[kBufferSize]) resolve(true)
PutAbsorbed(size, buf) == size <= buf

\* a sequence counter that hands out the same number again
NextOrderStuck(n) == n

\* const ts = totalOrder++: the counter after a put took the number n
NextOrder(n) == n + 1

Put(c, v) ==
  IF PutThrows(c)
  THEN /\ lastOp' = [op |-> "put", ch |-> c, id |-> 0, ret |-> "ChannelClosedError"]
       /\ UNCHANGED <<bufferSize, closed, messageQueue, readQueue, totalOrder,
                      puts, takes, selects, delivered>>
  ELSE
    /\ LET ts == totalOrder
           id == Len(puts) + 1
       IN /\ totalOrder' = NextOrder(totalOrder)
          /\ lastOp' = [op |-> "put", ch |-> c, id |-> id, ret |-> "promise"]
          /\ IF QueueSize(readQueue[c]) > 0
             THEN \* a reader waits: reader(msg); return resolvedTrue
               LET p == QueuePop(readQueue[c])
                   w == ReaderCb([World EXCEPT !.rq[c] = p.rest], p.item, v)
               IN /\ readQueue' = w.rq
                  /\ takes' = w.tk
                  /\ selects' = w.sl
                  /\ puts' = Append(puts, [ch |-> c, msg |-> v, res |-> "true"])
                  /\ delivered' = [delivered EXCEPT ![c] = Append(@, [msg |-> v, ts |-> ts])]
                  /\ UNCHANGED <<bufferSize, closed, messageQueue>>
             ELSE
               IF ~QueueCanPush(messageQueue[c], maxSize[c].messageQueue)
               THEN \* the internal message queue is full: resolve(false)
                 /\ puts' = Append(puts, [ch |-> c, msg |-> v, res |-> "false"])
                 /\ UNCHANGED <<bufferSize, closed, messageQueue, readQueue, takes,
                                selects, delivered>>
               ELSE
                 LET mq == QueuePush(messageQueue[c], [msg |-> v, putCb |-> id, ts |-> ts])
                 IN /\ messageQueue' = [messageQueue EXCEPT ![c] = mq]
                    /\ puts' = Append(puts,
                         [ch |-> c, msg |-> v,
                          res |-> IF PutAbsorbed(QueueSize(mq), bufferSize[c])
                                  THEN "true" ELSE "pending"])
                    /\ UNCHANGED <<bufferSize, closed, readQueue, takes, selects,
                                   delivered>>

\* a read that, having freed a slot, also resolves the put of the message
\* that is now the oldest
KReadResolvesNext(c) ==
  IF closed[c] \/ QueueSize(messageQueue[c]) = 0
  THEN [ret |-> "undefined", mq |-> messageQueue[c], ps |-> puts, got |-> <<>>]
  ELSE LET p == QueuePop(messageQueue[c])
           ps1 == [puts EXCEPT ![p.item.putCb].res = Resolve(@, "true")]
       IN [ret |-> p.item.msg,
           mq |-> p.rest,
           ps |-> IF QueueSize(p.rest) = 0 THEN ps1
                  ELSE [ps1 EXCEPT ![QueuePeek(p.rest).putCb].res = Resolve(@, "true")],
           got |-> <<[msg |-> p.item.msg, ts |-> p.item.ts]>>]

\* a read that looks at the oldest message and leaves it queued (peek in
\* place of pop)
KReadPeeks(c) ==
  IF closed[c] \/ QueueSize(messageQueue[c]) = 0
  THEN [ret |-> "undefined", mq |-> messageQueue[c], ps |-> puts, got |-> <<>>]
  ELSE LET item == QueuePeek(messageQueue[c])
       IN [ret |-> item.msg,
           mq |-> messageQueue[c],
           ps |-> [puts EXCEPT ![item.putCb].res = Resolve(@, "true")],
           got |-> <<[msg |-> item.msg, ts |-> item.ts]>>]

\* ------------------------------------------------------- [kRead] / read()
\* what [kRead] returns and leaves behind: ret, the message queue of c, the
\* put promises, and got, the envelope consumed (as a sequence of 0 or 1)
KRead(c) ==
  IF closed[c] \/ QueueSize(messageQueue[c]) = 0
  THEN [ret |-> "undefined", mq |-> messageQueue[c], ps |-> puts, got |-> <<>>]
  ELSE LET p == QueuePop(messageQueue[c])
       IN [ret |-> p.item.msg,
           mq |-> p.rest,
           ps |-> [puts EXCEPT ![p.item.putCb].res = Resolve(@, "true")],
           got |-> <<[msg |-> p.item.msg, ts |-> p.item.ts]>>]

Read(c) ==
  LET r == KRead(c)
  IN /\ messageQueue' = [messageQueue EXCEPT ![c] = r.mq]
     /\ puts' = r.ps
     /\ delivered' = [delivered EXCEPT ![c] = @ \o r.got]
     /\ lastOp' = [op |-> "read", ch |-> c, id |-> 0, ret |-> r.ret]
     /\ UNCHANGED <<bufferSize, closed, readQueue, totalOrder, takes, selects>>

\* ------------------------------------------------------- [kTake] / take()
\* a take that does not look at the closed flag
TakeClosedNever(c) == FALSE

TakeClosed(c) == closed[c]

\* a take that registers a reader without looking at the message queue
TakeHasMessageNever(c) == FALSE

\* if (this.size) return this[kRead]()
TakeHasMessage(c) == QueueSize(messageQueue[c]) > 0

Take(c) ==
  /\ LET id == Len(takes) + 1
     IN IF TakeClosed(c)
        THEN /\ takes' = Append(takes,
                  [ch |-> c, res |-> "closed", handle |-> FALSE, withdrawn |-> FALSE])
             /\ lastOp' = [op |-> "take", ch |-> c, id |-> id, ret |-> "closed"]
             /\ UNCHANGED <<bufferSize, closed, messageQueue, readQueue, totalOrder,
                            puts, selects, delivered>>
        ELSE IF TakeHasMessage(c)
        THEN LET r == KRead(c)
             IN /\ takes' = Append(takes,
                     [ch |-> c, res |-> r.ret, handle |-> FALSE, withdrawn |-> FALSE])
                /\ messageQueue' = [messageQueue EXCEPT ![c] = r.mq]
                /\ puts' = r.ps
                /\ delivered' = [delivered EXCEPT ![c] = @ \o r.got]
                /\ lastOp' = [op |-> "take", ch |-> c, id |-> id, ret |-> r.ret]
                /\ UNCHANGED <<bufferSize, closed, readQueue, totalOrder, selects>>
        ELSE IF ~QueueCanPush(readQueue[c], maxSize[c].readQueue)
        THEN /\ takes' = Append(takes,
                  [ch |-> c, res |-> "ChannelOverflowError", handle |-> FALSE,
                   withdrawn |-> FALSE])
             /\ lastOp' = [op |-> "take", ch |-> c, id |-> id, ret |-> "pending"]
             /\ UNCHANGED <<bufferSize, closed, messageQueue, readQueue, totalOrder,
                            puts, selects, delivered>>
        ELSE /\ readQueue' = [readQueue EXCEPT ![c] = QueuePush(@, TakeReader(id))]
             /\ takes' = Append(takes,
                  [ch |-> c, res |-> "pending", handle |-> TRUE, withdrawn |-> FALSE])
             /\ lastOp' = [op |-> "take", ch |-> c, id |-> id, ret |-> "pending"]
             /\ UNCHANGED <<bufferSize, closed, messageQueue, totalOrder, puts,
                            selects, delivered>>

\* the dispose function [kTake] attaches to the promise of a registered take
Dispose(t) ==
  /\ t \in 1..Len(takes)
  /\ takes[t].handle
  /\ readQueue' = [readQueue EXCEPT ![takes[t].ch] = QueueDispose(@, TakeReader(t))]
  /\ takes' = [takes EXCEPT
       ![t].withdrawn = @ \/ IndexOf(readQueue[takes[t].ch], TakeReader(t)) >= 1]
  /\ lastOp' = [op |-> "dispose", ch |-> takes[t].ch, id |-> t, ret |-> "undefined"]
  /\ UNCHANGED <<bufferSize, closed, messageQueue, totalOrder, puts, selects,
                 delivered>>

\* -------------------------------------------------------------- select()
\* if (msg && msg.ts < oldestTes), oldestTes starting at POSITIVE_INFINITY
\* (oldestKey = 0: no channel with a message was seen yet)
\* a scan that keeps the first channel found with a message
OlderFirstSeen(ts, oldestKey, oldestTes) == oldestKey = 0

Older(ts, oldestKey, oldestTes) == oldestKey = 0 \/ ts < oldestTes

\* a scan in which a closed channel ends the loop but yields the closed signal
\* only when no earlier key had a message
RECURSIVE SelectScanMessageWins(_, _, _, _)
SelectScanMessageWins(chs, i, oldestKey, oldestTes) ==
  IF i > Len(chs) THEN [kind |-> "scanned", key |-> oldestKey]
  ELSE IF closed[chs[i]]
  THEN IF oldestKey = 0 THEN [kind |-> "closed", key |-> i]
       ELSE [kind |-> "scanned", key |-> oldestKey]
  ELSE LET mq == messageQueue[chs[i]]
       IN IF QueueSize(mq) > 0 /\ Older(QueuePeek(mq).ts, oldestKey, oldestTes)
          THEN SelectScanMessageWins(chs, i + 1, i, QueuePeek(mq).ts)
          ELSE SelectScanMessageWins(chs, i + 1, oldestKey, oldestTes)

\* the scan of [kSelect] over the keys i, i+1, ... of the mapping chs
RECURSIVE SelectScan(_, _, _, _)
SelectScan(chs, i, oldestKey, oldestTes) ==
  IF i > Len(chs) THEN [kind |-> "scanned", key |-> oldestKey]
  ELSE IF closed[chs[i]] THEN [kind |-> "closed", key |-> i]
  ELSE LET mq == messageQueue[chs[i]]
       IN IF QueueSize(mq) > 0 /\ Older(QueuePeek(mq).ts, oldestKey, oldestTes)
          THEN SelectScan(chs, i + 1, i, QueuePeek(mq).ts)
          ELSE SelectScan(chs, i + 1, oldestKey, oldestTes)

\* the registration loop of [kSelect]: one callback per key, stopping at the
\* first push that is rejected
RECURSIVE SelectRegister(_, _, _, _)
SelectRegister(rq, s, chs, i) ==
  IF i > Len(chs) THEN [rq |-> rq, overflow |-> FALSE]
  ELSE IF ~QueueCanPush(rq[chs[i]], maxSize[chs[i]].readQueue)
  THEN [rq |-> rq, overflow |-> TRUE]
  ELSE SelectRegister([rq EXCEPT ![chs[i]] = QueuePush(@, SelectReader(s, i))],
                      s, chs, i + 1)

\* a select that never reports a mapping without channels
HadChannelAlways(m) == TRUE

\* hadChannel: set for every key the scan visits
HadChannel(m) == Len(m) > 0

Select(m) ==
  LET sc == SelectScan(m, 1, 0, 0)
      id == Len(selects) + 1
  IN IF sc.kind = "closed"
     THEN           /\ selects' = Append(selects, [chs |-> m, key |-> sc.key, value |-> "closed"])
          /\ lastOp' = [op |-> "select", ch |-> m[sc.key], id |-> id, ret |-> "closed"]
          /\ UNCHANGED <<bufferSize, closed, messageQueue, readQueue, totalOrder,
                         puts, takes, delivered>>
     ELSE IF sc.key # 0
     THEN LET c == m[sc.key]
              p == QueuePop(messageQueue[c])
          IN              /\ messageQueue' = [messageQueue EXCEPT ![c] = p.rest]
             /\ puts' = [puts EXCEPT ![p.item.putCb].res = Resolve(@, "true")]
             /\ selects' = Append(selects,
                  [chs |-> m, key |-> sc.key, value |-> p.item.msg])
             /\ delivered' = [delivered EXCEPT
                  ![c] = Append(@, [msg |-> p.item.msg, ts |-> p.item.ts])]
             /\ lastOp' = [op |-> "select", ch |-> c, id |-> id, ret |-> p.item.msg]
             /\ UNCHANGED <<bufferSize, closed, readQueue, totalOrder, takes>>
     ELSE IF ~HadChannel(m)
     THEN \* throw new TypeError(...)
          /\ lastOp' = [op |-> "select", ch |-> "-", id |-> 0, ret |-> "TypeError"]
          /\ UNCHANGED <<bufferSize, closed, messageQueue, readQueue, totalOrder,
                         puts, takes, selects, delivered>>
     ELSE LET r == SelectRegister(readQueue, id, m, 1)
          IN              /\ readQueue' = r.rq
             /\ selects' = Append(selects,
                  [chs |-> m, key |-> 0,
                   value |-> IF r.overflow THEN "ChannelOverflowError" ELSE "pending"])
             /\ lastOp' = [op |-> "select", ch |-> "-", id |-> id, ret |-> "pending"]
             /\ UNCHANGED <<bufferSize, closed, messageQueue, totalOrder, puts, takes,
                            delivered>>

\* ------------------------------------------------------- async iterators
\* iter is the one async generator a consumer runs: over a channel
\* (ch[Symbol.asyncIterator]), over a take (ch.take()) or over a select
\* (select(chs)). state is the position of the generator: "ready" before its
\* next call of take or select, "awaiting" the promise cur, "done" after its
\* return; yielded are the results it handed to its consumer.

\* an iteration that does not look for the closed signal
IterEndsNever(value) == FALSE

\* if (value === closed) return / if (result.value === closed) return
IterEnds(value) == value = "closed"

\* a generator without its loop: it returns after the first result
IterStepOnce(it, r) ==
  IF IterEnds(r.value) \/ Len(it.yielded) >= 1 THEN [it EXCEPT !.state = "done"]
  ELSE [it EXCEPT !.state = "ready", !.yielded = Append(@, r)]

\* the generator once it holds the result r: return, or yield r
IterStep(it, r) ==
  IF IterEnds(r.value) THEN [it EXCEPT !.state = "done"]
  ELSE [it EXCEPT !.state = "ready", !.yielded = Append(@, r)]

\* isPromise(took): [kTake] returns a promise only when it registers; the
\* closed signal and the result of [kRead] are returned as plain values
TakeIsPromise(c) == ~TakeClosed(c) /\ ~TakeHasMessage(c)

\* isPromise(selectResult): [kSelect] returns a promise only when it registers
SelectIsPromise(m) ==
  LET sc == SelectScan(m, 1, 0, 0) IN sc.kind = "scanned" /\ sc.key = 0

\* the takes and selects issued so far
Calls == Len(takes) + Len(selects)

\* for await (const msg of ch): the generator is created, nothing is called
IterOpenChannel(c) ==
  /\ iter.state = "none"
  /\ iter' = [NoIter EXCEPT !.kind = "channel", !.ch = c, !.state = "ready"]
  /\ lastOp' = [op |-> "iterate", ch |-> c, id |-> 0, ret |-> "iterator"]
  /\ UNCHANGED <<bufferSize, closed, messageQueue, readQueue, totalOrder, puts,
                 takes, selects, delivered>>

\* for await (const msg of ch.take()): take() calls [kTake] at once and the
\* generator starts by waiting for its result
IterOpenTake(c) ==
  /\ iter.state = "none"
  /\ Take(c)
  /\ iter' = [NoIter EXCEPT !.kind = "take", !.ch = c, !.state = "awaiting",
                            !.cur = Len(takes) + 1]

\* for await (const r of select(chs)): select() calls [kSelect] at once
IterOpenSelect(m) ==
  /\ iter.state = "none"
  /\ HadChannel(m)
  /\ Select(m)
  /\ iter' = [NoIter EXCEPT !.kind = "select", !.chs = m, !.state = "awaiting",
                            !.cur = Len(selects) + 1]

\* the generator is resumed after a yield (or started, over a channel) and
\* calls take or select again; a plain value is yielded without an await
IterNext ==
  /\ iter.state = "ready"
  /\ IF iter.kind = "channel"
     THEN /\ Take(iter.ch)
          /\ iter' = [iter EXCEPT !.state = "awaiting", !.cur = Len(takes) + 1]
     ELSE IF iter.kind = "take"
     THEN /\ Take(iter.ch)
          /\ iter' = IF TakeIsPromise(iter.ch)
                     THEN [iter EXCEPT !.state = "awaiting", !.cur = Len(takes) + 1]
                     ELSE IterStep([iter EXCEPT !.cur = Len(takes) + 1],
                                   [key |-> 0, value |-> takes'[Len(takes')].res])
     ELSE /\ Select(iter.chs)
          /\ iter' = IF SelectIsPromise(iter.chs)
                     THEN [iter EXCEPT !.state = "awaiting", !.cur = Len(selects) + 1]
                     ELSE IterStep([iter EXCEPT !.cur = Len(selects) + 1],
                                   [key |-> selects'[Len(selects')].key,
                                    value |-> selects'[Len(selects')].value])

\* the result of the promise the generator waits for
IterResult ==
  IF iter.kind = "select"
  THEN [key |-> selects[iter.cur].key, value |-> selects[iter.cur].value]
  ELSE [key |-> 0, value |-> takes[iter.cur].res]

\* the awaited promise is settled and the generator continues
IterResume ==
  /\ iter.state = "awaiting"
  /\ IterResult.value # "pending"
  /\ iter' = IterStep(iter, IterResult)
  /\ lastOp' = [op |-> "resume", ch |-> "-", id |-> iter.cur, ret |-> IterResult.value]
  /\ UNCHANGED <<bufferSize, closed, messageQueue, readQueue, totalOrder, puts,
                 takes, selects, delivered>>

\* ---------------------------------------------------------- specification
\* The operations a program may perform on the channels C, with the mappings M
\* handed to select, issuing at most n puts, takes and selects.
Ops(C, M, n) ==
  \/ \E c \in C, v \in Values :
       /\ PutThrows(c) \/ Issued < n
       /\ v = Payloads[totalOrder + 1]
       /\ Put(c, v)
       /\ UNCHANGED <<iter, maxSize, queue>>
  \/ \E c \in C : Issued < n /\ Take(c) /\ UNCHANGED <<iter, maxSize, queue>>
  \/ \E c \in C : Read(c) /\ UNCHANGED <<iter, maxSize, queue>>
  \/ \E c \in C : Close(c) /\ UNCHANGED <<iter, maxSize, queue>>
  \/ \E t \in 1..Len(takes) : Dispose(t) /\ UNCHANGED <<iter, maxSize, queue>>
  \/ \E m \in M : (Len(m) = 0 \/ Issued < n) /\ Select(m) /\ UNCHANGED <<iter, maxSize, queue>>

\* two channels, raced by select
Next == Ops(Chans, MappingsOf(Chans), MaxOps)

Spec == Init /\ [][Next]_vars

\* one channel, longer runs
NextChan == Ops({"a"}, MappingsOf({"a"}), MaxChanOps)

SpecChan == Init /\ [][NextChan]_vars

\* Reader queues that fill up: Queue takes its capacity as a constructor
\* argument (queue.ts 7-9) and ChannelImpl handles a rejected push in take
\* and select. The capacity ChannelImpl constructs its queues with is beyond
\* any array; here the reader queues are given a small one, so that the
\* branches of a rejected push are taken.
InitFull ==
  /\ bufferSize = [c \in Chans |-> 0]
  /\ closed = [c \in Chans |-> FALSE]
  /\ messageQueue = [c \in Chans |-> <<>>]
  /\ readQueue = [c \in Chans |-> <<>>]
  /\ totalOrder = 0
  /\ puts = <<>>
  /\ takes = <<>>
  /\ selects = <<>>
  /\ delivered = [c \in Chans |-> <<>>]
  /\ lastOp = [op |-> "new", ch |-> "-", id |-> 0, ret |-> "-"]
  /\ iter = NoIter
  /\ maxSize \in [Chans -> [messageQueue : {kMaxSize}, readQueue : 1..MaxReadQueueSize]]
  /\ queue = NoQueue

NextFull == Ops(Chans, MappingsOf(Chans), MaxFullOps)

SpecFull == InitFull /\ [][NextFull]_vars

\* -------------------------------------------------- a Queue on its own
\* The items a caller pushes; a caller may push the same item again.
QueueItems == {"x", "y"}

\* const dispose = q.push(item), on q = new Queue(MaxQueueSize)
QPush(item) ==
  /\ Len(queue.tokens) < MaxQueuePushes
  /\ IF ~QueueCanPush(queue.items, MaxQueueSize)
     THEN /\ queue' = queue
          /\ lastOp' = [op |-> "qpush", ch |-> "-", id |-> 0, ret |-> "false"]
     ELSE LET id == Len(queue.tokens) + 1
          IN /\ queue' = [items |-> QueuePush(queue.items, item),
                          entries |-> QueuePush(queue.entries, id),
                          tokens |-> Append(queue.tokens, item)]
             /\ lastOp' = [op |-> "qpush", ch |-> "-", id |-> id, ret |-> "dispose"]
  /\ UNCHANGED <<bufferSize, closed, messageQueue, readQueue, totalOrder, puts,
                 takes, selects, delivered, iter, maxSize>>

\* q.pop(): undefined on an empty queue
QPop ==
  /\ IF QueueSize(queue.items) = 0
     THEN /\ queue' = queue
          /\ lastOp' = [op |-> "qpop", ch |-> "-", id |-> 0, ret |-> "undefined"]
     ELSE /\ queue' = [queue EXCEPT !.items = QueuePop(@).rest,
                                    !.entries = QueuePop(@).rest]
          /\ lastOp' = [op |-> "qpop", ch |-> "-", id |-> QueuePop(queue.entries).item,
                        ret |-> QueuePop(queue.items).item]
  /\ UNCHANGED <<bufferSize, closed, messageQueue, readQueue, totalOrder, puts,
                 takes, selects, delivered, iter, maxSize>>

\* dispose(), for the function the k-th push returned: indexOf(item) on the
\* array, then splice at that index
QWithdraw(k) ==
  /\ k \in 1..Len(queue.tokens)
  /\ LET idx == IndexOf(queue.items, queue.tokens[k])
     IN queue' = [queue EXCEPT
          !.items = QueueDispose(@, queue.tokens[k]),
          !.entries = IF idx >= 1
                      THEN SubSeq(@, 1, idx - 1) \o SubSeq(@, idx + 1, Len(@))
                      ELSE @]
  /\ lastOp' = [op |-> "qwithdraw", ch |-> "-", id |-> k, ret |-> "undefined"]
  /\ UNCHANGED <<bufferSize, closed, messageQueue, readQueue, totalOrder, puts,
                 takes, selects, delivered, iter, maxSize>>

InitQueue == Init /\ bufferSize = [c \in Chans |-> 0]

NextQueue ==
  \/ \E item \in QueueItems : QPush(item)
  \/ QPop
  \/ \E k \in 1..Len(queue.tokens) : QWithdraw(k)

SpecQueue == InitQueue /\ [][NextQueue]_vars

\* two channels with producers, a consumer that reads without waiting and a
\* consumer that iterates; every take and select is a call of the iterator
NextIter ==
  \/ \E c \in Chans, v \in Values :
       /\ PutThrows(c) \/ Len(puts) < MaxIterPuts
       /\ v = Payloads[totalOrder + 1]
       /\ Put(c, v)
       /\ UNCHANGED <<iter, maxSize, queue>>
  \/ \E c \in Chans : Close(c) /\ UNCHANGED <<iter, maxSize, queue>>
  \/ \E c \in Chans : Read(c) /\ UNCHANGED <<iter, maxSize, queue>>
  \/ \E c \in Chans : IterOpenChannel(c) /\ UNCHANGED <<maxSize, queue>>
  \/ \E c \in Chans : Calls < MaxIterCalls /\ IterOpenTake(c) /\ UNCHANGED <<maxSize, queue>>
  \/ \E m \in MappingsOf(Chans) :
       Calls < MaxIterCalls /\ IterOpenSelect(m) /\ UNCHANGED <<maxSize, queue>>
  \/ Calls < MaxIterCalls /\ IterNext /\ UNCHANGED <<maxSize, queue>>
  \/ IterResume /\ UNCHANGED <<maxSize, queue>>

SpecIter == Init /\ [][NextIter]_vars

\* ------------------------------------------------------------ properties
\* everything but lastOp: the state of the channels and of the promises
core == <<bufferSize, closed, messageQueue, readQueue, totalOrder, puts, takes,
          selects, delivered>>

\* the takes registered on c that wait: unresolved and not withdrawn
Waiting(c) ==
  { t \in 1..Len(takes) :
      takes[t].ch = c /\ takes[t].res = "pending" /\ ~takes[t].withdrawn }

\* c goes from open to closed in this step
Closes(c) == ~closed[c] /\ closed'[c]

\* C1: in every reachable state no channel has a non-empty message queue and
\* a non-empty reader queue at the same time.
C1_NeverBothNonEmpty ==
  \A c \in Chans :
    ~(QueueSize(messageQueue[c]) > 0 /\ QueueSize(readQueue[c]) > 0)

\* a put arrived at a channel where two readers waited: the oldest was served,
\* the other still waits, and the message never sat in the message queue
C1_Witness ==
  \E c \in Chans :
    /\ lastOp.op = "put" /\ lastOp.ch = c /\ lastOp.id > 0
    /\ puts[lastOp.id].res = "true"
    /\ Len(delivered[c]) > 0
    /\ delivered[c][Len(delivered[c])].msg = puts[lastOp.id].msg
    /\ QueueSize(readQueue[c]) > 0
    /\ QueueSize(messageQueue[c]) = 0

\* C2: the closed flag starts false, becomes true only through close() on
\* that channel, and once true stays true whatever is called later.
C2_ClosedOneWay ==
  /\ \A c \in Chans : ~closed[c]
  /\ [][\A c \in Chans :
          /\ closed[c] => closed'[c]
          /\ Closes(c) => lastOp'.op = "close" /\ lastOp'.ch = c]_vars

\* a take was issued on a channel after it was closed, and it is still closed
C2_Witness ==
  \E c \in Chans :
    /\ closed[c]
    /\ lastOp.op = "take" /\ lastOp.ch = c /\ lastOp.ret = "closed"
    /\ \E d \in Chans : ~closed[d]

\* C3: a closed channel never holds a reader registration: its reader queue
\* is empty when close() returns and no later take or select adds to it.
C3_ClosedHasNoReaders ==
  \A c \in Chans : closed[c] => QueueSize(readQueue[c]) = 0

\* a channel was closed while a take waited on it, and a select that includes
\* it was issued afterwards
C3_Witness ==
  \E c \in Chans :
    /\ closed[c]
    /\ \E t \in 1..Len(takes) :
         takes[t].ch = c /\ takes[t].handle /\ takes[t].res = "closed"
    /\ lastOp.op = "select" /\ lastOp.ch = c /\ lastOp.ret = "closed"
    /\ Len(selects[lastOp.id].chs) = 2

\* C4: when close() is called on a channel with takes waiting, every one of
\* them resolves to the closed signal during that close().
C4_CloseResolvesTakes ==
  [][\A c \in Chans :
       Closes(c) => \A t \in Waiting(c) : takes'[t].res = "closed"]_vars

\* close() has just returned on a channel where two takes waited
C4_Witness ==
  \E c \in Chans :
    /\ lastOp.op = "close" /\ lastOp.ch = c /\ lastOp.ret = "undefined"
    /\ \E t, u \in 1..Len(takes) :
         /\ t # u
         /\ takes[t].ch = c /\ takes[t].handle /\ takes[t].res = "closed"
         /\ takes[u].ch = c /\ takes[u].handle /\ takes[u].res = "closed"

\* no put on a closed channel is unresolved
NoPendingPutOnClosed ==
  \A p \in 1..Len(puts) : closed[puts[p].ch] => puts[p].res # "pending"

Undelivered(p) ==
  \A i \in 1..Len(delivered[puts[p].ch]) : delivered[puts[p].ch][i].ts # p - 1

\* the puts of the messages queued on c
QueuedPuts(c) == { messageQueue[c][i].putCb : i \in 1..Len(messageQueue[c]) }

\* C6 as stated: close() on a channel that holds N unconsumed messages
\* resolves the puts of all N of them to false, and all waiting takes to the
\* closed signal.
C6_AllQueuedPutsFalse ==
  [][\A c \in Chans :
       Closes(c) =>
         /\ \A p \in QueuedPuts(c) : puts'[p].res = "false"
         /\ \A t \in Waiting(c) : takes'[t].res = "closed"]_vars

\* C6 amended: close() resolves to false the put of every queued message
\* whose put is still unresolved; the put of a queued message that already
\* resolved true (absorbed by the buffer) stays true; all waiting takes
\* resolve to the closed signal.
C6_PendingQueuedPutsFalse ==
  [][\A c \in Chans :
       Closes(c) =>
         /\ \A p \in QueuedPuts(c) :
              /\ puts[p].res \in {"pending", "true"}
              /\ puts[p].res = "pending" => puts'[p].res = "false"
              /\ puts[p].res = "true" => puts'[p].res = "true"
         /\ \A t \in Waiting(c) : takes'[t].res = "closed"]_vars

\* close() has just discarded two messages of one channel: the put of one had
\* resolved true on arrival, the put of the other was unresolved
C6_Witness ==
  \E c \in Chans :
    /\ lastOp.op = "close" /\ lastOp.ch = c /\ lastOp.ret = "undefined"
    /\ \E p, q \in 1..Len(puts) :
         /\ puts[p].ch = c /\ puts[p].res = "true" /\ Undelivered(p)
         /\ puts[q].ch = c /\ puts[q].res = "false" /\ Undelivered(q)

Range(f) == { f[i] : i \in DOMAIN f }

NoMessageOnClosed ==
  \A c \in Chans : closed[c] => QueueSize(messageQueue[c]) = 0

\* C7: messages still queued when close() is called are discarded: after
\* close() the size is 0, and every later take, read or select on the channel
\* yields the closed signal or no value, never a message.
C7_ClosedDeliversNothing ==
  /\ NoMessageOnClosed
  /\ [][/\ NoMessageOnClosed'
        /\ \A c \in Chans :
             closed[c] =>
               /\ delivered'[c] = delivered[c]
               /\ (lastOp'.op = "read" /\ lastOp'.ch = c) => lastOp'.ret = "undefined"
               /\ (lastOp'.op = "take" /\ lastOp'.ch = c) =>
                    /\ lastOp'.ret = "closed"
                    /\ takes'[lastOp'.id].res = "closed"
               /\ (lastOp'.op = "select" /\ lastOp'.id > 0
                     /\ c \in Range(selects'[lastOp'.id].chs)) =>
                    /\ lastOp'.ret = "closed"
                    /\ selects'[lastOp'.id].value = "closed"]_vars

\* a take was issued on a closed channel whose message, put before the close,
\* was never consumed
C7_Witness ==
  \E c \in Chans :
    /\ closed[c]
    /\ \E p \in 1..Len(puts) : puts[p].ch = c /\ Undelivered(p)
    /\ lastOp.op = "take" /\ lastOp.ch = c /\ lastOp.ret = "closed"

\* C8: put() on a closed channel fails with ChannelClosedError and changes
\* nothing: the channel stays closed and empty.
C8_PutOnClosedThrows ==
  [][(lastOp'.op = "put" /\ closed[lastOp'.ch]) =>
       /\ lastOp'.ret = "ChannelClosedError"
       /\ UNCHANGED core
       /\ closed'[lastOp'.ch]
       /\ QueueSize(messageQueue'[lastOp'.ch]) = 0
       /\ QueueSize(readQueue'[lastOp'.ch]) = 0]_vars

\* a put has just failed on a channel that was closed after accepting a put
C8_Witness ==
  /\ lastOp.op = "put" /\ lastOp.ret = "ChannelClosedError"
  /\ closed[lastOp.ch]
  /\ \E p \in 1..Len(puts) : puts[p].ch = lastOp.ch

\* C9: close() on an already closed channel fails with ChannelClosedError and
\* leaves the state unchanged; close succeeds only on an open channel, so
\* once per channel.
C9_CloseOnClosedThrows ==
  [][lastOp'.op = "close" =>
       /\ closed[lastOp'.ch] =>
            lastOp'.ret = "ChannelClosedError" /\ UNCHANGED core
       /\ ~closed[lastOp'.ch] =>
            lastOp'.ret = "undefined" /\ closed'[lastOp'.ch]]_vars

\* a close has just failed on a closed channel
C9_Witness ==
  /\ lastOp.op = "close" /\ lastOp.ret = "ChannelClosedError"
  /\ closed[lastOp.ch]

\* the puts accepted on c, in the order they were made
PutLog(c) == SelectSeq(puts, LAMBDA p : p.ch = c)

\* C10: on one channel the i-th value delivered to consumers is the i-th
\* value put, whether handed to a waiting reader or taken from the queue.
C10_Fifo ==
  \A c \in Chans :
    /\ Len(delivered[c]) <= Len(PutLog(c))
    /\ \A i \in 1..Len(delivered[c]) : delivered[c][i].msg = PutLog(c)[i].msg

\* three values were delivered on one channel, the first two to takes that
\* found them queued and the third to a reader that waited for it
C10_Witness ==
  \E c \in Chans :
    /\ Len(delivered[c]) = 3
    /\ \E t, u, w \in 1..Len(takes) :
         /\ takes[t].ch = c /\ ~takes[t].handle /\ takes[t].res = delivered[c][1].msg
         /\ takes[u].ch = c /\ ~takes[u].handle /\ takes[u].res = delivered[c][2].msg
         /\ takes[w].ch = c /\ takes[w].handle /\ takes[w].res = delivered[c][3].msg

\* the j-th oldest envelope queued on c
Oldest(c, j) == messageQueue[c][Len(messageQueue[c]) - j + 1]

\* C11: on an open channel of capacity K with no reader waiting and nothing
\* read, each of the first K puts has resolved true while its message is
\* still queued.
C11_FirstPutsAbsorbed ==
  \A c \in Chans :
    (~closed[c] /\ delivered[c] = <<>>) =>
      /\ QueueSize(messageQueue[c]) = Len(PutLog(c))
      /\ \A j \in 1..QueueSize(messageQueue[c]) :
           /\ Oldest(c, j).msg = PutLog(c)[j].msg
           /\ j <= bufferSize[c] => puts[Oldest(c, j).putCb].res = "true"

\* a buffered channel from which nothing was read holds more messages than
\* its capacity
C11_Witness ==
  \E c \in Chans :
    /\ bufferSize[c] >= 1
    /\ ~closed[c] /\ delivered[c] = <<>>
    /\ QueueSize(messageQueue[c]) > bufferSize[c]
    /\ puts[Oldest(c, 1).putCb].res = "true"

\* a put was accepted in this step
PutAccepted == Len(puts') = Len(puts) + 1

TakeIssued(c) == Len(takes') = Len(takes) + 1 /\ takes'[Len(takes')].ch = c

\* c has capacity 1 and holds two messages, the put of the older resolved
\* true, the put of the younger unresolved
OneAbsorbedOnePending(c) ==
  /\ bufferSize[c] = 1 /\ ~closed[c]
  /\ QueueSize(messageQueue[c]) = 2
  /\ puts[Oldest(c, 1).putCb].res = "true"
  /\ puts[Oldest(c, 2).putCb].res = "pending"

\* C13 as stated: on a channel of capacity 1, after put(1) resolved true and
\* with put(2) pending, a single take resolves to 1 and resolves put(2) true.
C13_TakeResolvesNextPut ==
  [][\A c \in Chans :
       (OneAbsorbedOnePending(c) /\ TakeIssued(c)) =>
         /\ takes'[Len(takes')].res = Oldest(c, 1).msg
         /\ puts'[Oldest(c, 2).putCb].res = "true"]_vars

\* C13 amended: that take resolves to 1 and leaves put(2) unresolved, its
\* message still queued; put(2) resolves true when a later take consumes
\* message 2 itself.
C13_TakeLeavesNextPutPending ==
  [][\A c \in Chans :
       /\ (OneAbsorbedOnePending(c) /\ TakeIssued(c)) =>
            /\ takes'[Len(takes')].res = Oldest(c, 1).msg
            /\ puts'[Oldest(c, 2).putCb].res = "pending"
            /\ messageQueue'[c] = <<Oldest(c, 2)>>
       /\ (/\ bufferSize[c] = 1 /\ ~closed[c]
           /\ QueueSize(messageQueue[c]) = 1
           /\ puts[Oldest(c, 1).putCb].res = "pending"
           /\ TakeIssued(c)) =>
            /\ takes'[Len(takes')].res = Oldest(c, 1).msg
            /\ puts'[Oldest(c, 1).putCb].res = "true"
            /\ messageQueue'[c] = <<>>]_vars

\* on a channel of capacity 1 the first take has returned message 1, whose put
\* had resolved on arrival, and message 2 is queued with its put unresolved
C13_Witness ==
  \E c \in Chans :
    /\ bufferSize[c] = 1 /\ ~closed[c]
    /\ Len(PutLog(c)) = 2
    /\ Len(takes) = 1 /\ takes[1].ch = c /\ takes[1].res = PutLog(c)[1].msg
    /\ Len(delivered[c]) = 1
    /\ QueueSize(messageQueue[c]) = 1
    /\ Oldest(c, 1).msg = PutLog(c)[2].msg
    /\ puts[Oldest(c, 1).putCb].res = "pending"

TakeLog(c) ==
  SelectSeq(takes, LAMBDA t : t.ch = c /\ ~t.handle /\ t.res \in Values)

\* C15: on an unbuffered channel a put issued with no reader waiting resolves
\* only when its own message is consumed, and then to true; with n queued
\* puts followed by n takes, the j-th take returns the j-th value and exactly
\* the first j puts are resolved.
C15_UnbufferedPairs ==
  \A c \in Chans :
    bufferSize[c] = 0 =>
      /\ \A p \in 1..Len(puts) :
           puts[p].ch = c =>
             /\ puts[p].res = "true" <=> ~Undelivered(p)
             /\ puts[p].res = "false" => closed[c]
      /\ Len(delivered[c]) <= Len(PutLog(c))
      /\ \A j \in 1..Len(PutLog(c)) :
           PutLog(c)[j].res = "true" <=> j <= Len(delivered[c])
      /\ Len(TakeLog(c)) = Len(delivered[c]) =>
           \A j \in 1..Len(TakeLog(c)) : TakeLog(c)[j].res = PutLog(c)[j].msg

\* three puts were queued on an unbuffered channel and two takes followed:
\* the first two puts are resolved, the third is not
C15_Witness ==
  \E c \in Chans :
    /\ bufferSize[c] = 0 /\ ~closed[c]
    /\ Len(PutLog(c)) = 3
    /\ Len(TakeLog(c)) = 2 /\ Len(delivered[c]) = 2
    /\ PutLog(c)[2].res = "true"
    /\ PutLog(c)[3].res = "pending"

\* C16: every put on an unbuffered channel resolves to true; its promise
\* never resolves to false.
C16_UnbufferedPutNeverFalse ==
  \A p \in 1..Len(puts) : bufferSize[puts[p].ch] = 0 => puts[p].res # "false"

\* C17: on a channel created with a buffer size, a put that would exceed the
\* buffer is discarded (its message is not enqueued) and resolves to false.
C17_OverflowPutDropped ==
  [][PutAccepted =>
       LET id == Len(puts')
           c == puts'[id].ch
       IN (/\ bufferSize[c] >= 1
           /\ QueueSize(readQueue[c]) = 0
           /\ QueueSize(messageQueue[c]) >= bufferSize[c]) =>
            /\ messageQueue'[c] = messageQueue[c]
            /\ puts'[id].res = "false"]_vars

\* the takes on c that found it closed: resolved at once, without a handle
ClosedTakes(c) ==
  SelectSeq(takes, LAMBDA t : t.ch = c /\ ~t.handle /\ t.res = "closed")

\* C18: take() on a closed channel resolves immediately to the closed signal
\* and adds no reader registration, for every take issued after close.
C18_TakeOnClosedImmediate ==
  [][\A c \in Chans :
       (closed[c] /\ TakeIssued(c)) =>
         LET t == takes'[Len(takes')]
         IN /\ t.res = "closed"
            /\ ~t.handle
            /\ lastOp'.ret = "closed"
            /\ readQueue' = readQueue
            /\ Len(ClosedTakes(c)') = Len(ClosedTakes(c)) + 1]_vars

\* three takes were issued on a channel after it was closed while a take
\* waited on it
C18_Witness ==
  \E c \in Chans :
    /\ closed[c]
    /\ Len(ClosedTakes(c)) = 3
    /\ \E t \in 1..Len(takes) :
         takes[t].ch = c /\ takes[t].handle /\ takes[t].res = "closed"
    /\ lastOp.op = "take" /\ lastOp.ch = c
    /\ QueueSize(readQueue[c]) = 0

SelectIssued(m) ==
  Len(selects') = Len(selects) + 1 /\ selects'[Len(selects')].chs = m

\* the envelopes queued on the channels of the mapping m
QueuedOn(m) ==
  UNION { Range(messageQueue[m[i]]) : i \in 1..Len(m) }

\* C19: select over open channels of which at least one has a queued message
\* returns the message with the smallest sequence number among all messages
\* queued on the channels of the set, with that channel's key, whatever the
\* order of the keys, and removes that message.
C19_SelectOldest ==
  [][\A m \in MappingsOf(Chans) :
       (/\ SelectIssued(m)
        /\ \A i \in 1..Len(m) : ~closed[m[i]]
        /\ QueuedOn(m) # {}) =>
         LET s == selects'[Len(selects')]
         IN /\ s.key \in 1..Len(m)
            /\ \E e \in Range(messageQueue[m[s.key]]) :
                 /\ s.value = e.msg
                 /\ \A f \in QueuedOn(m) : e.ts <= f.ts
                 /\ Range(messageQueue'[m[s.key]]) =
                      Range(messageQueue[m[s.key]]) \ {e}
                 /\ puts'[e.putCb].res = "true"
            /\ \A c \in Chans \ {m[s.key]} : messageQueue'[c] = messageQueue[c]
            /\ readQueue' = readQueue]_vars

\* a select returned the message of its second key, older than the message
\* still queued on its first key
C19_Witness ==
  /\ lastOp.op = "select" /\ lastOp.id > 0
  /\ LET s == selects[lastOp.id]
     IN /\ Len(s.chs) = 2
        /\ s.key = 2
        /\ s.value \in Values
        /\ lastOp.ret = s.value
        /\ ~closed[s.chs[1]] /\ ~closed[s.chs[2]]
        /\ QueueSize(messageQueue[s.chs[1]]) > 0
        /\ \E d \in Range(delivered[s.chs[2]]) :
             d.msg = s.value /\ d.ts < QueuePeek(messageQueue[s.chs[1]]).ts

\* C20: select on a mapping with at least one closed channel returns the key
\* of the first closed channel in mapping order with the closed signal, even
\* if another channel of the set has a pending message, which stays queued.
C20_SelectClosedFirst ==
  [][\A m \in MappingsOf(Chans) :
       (SelectIssued(m) /\ \E i \in 1..Len(m) : closed[m[i]]) =>
         LET s == selects'[Len(selects')]
         IN /\ s.key \in 1..Len(m)
            /\ closed[m[s.key]]
            /\ \A i \in 1..(s.key - 1) : ~closed[m[i]]
            /\ s.value = "closed"
            /\ lastOp'.ret = "closed"
            /\ messageQueue' = messageQueue
            /\ readQueue' = readQueue
            /\ puts' = puts]_vars

\* a select returned the closed signal for its second key while its first
\* key, an open channel, held a message
C20_Witness ==
  /\ lastOp.op = "select" /\ lastOp.id > 0
  /\ LET s == selects[lastOp.id]
     IN /\ Len(s.chs) = 2
        /\ s.key = 2 /\ s.value = "closed"
        /\ closed[s.chs[2]] /\ ~closed[s.chs[1]]
        /\ QueueSize(messageQueue[s.chs[1]]) > 0

\* the channels whose reader queue holds a registration of select s
Registered(s) ==
  { c \in Chans :
      \E i \in 1..Len(readQueue[c]) :
        readQueue[c][i].kind = "select" /\ readQueue[c][i].id = s }

\* C21: once a select that registered readers has resolved, none of its
\* registrations remains in the reader queue of any channel: the winner's was
\* popped and the others were withdrawn in the step that resolved it.
C21_NoStaleRegistration ==
  \A s \in 1..Len(selects) : selects[s].value # "pending" => Registered(s) = {}

\* a put has just resolved a select that waited on two channels, on its
\* second key, and another select still waits on the first
C21_Witness ==
  /\ lastOp.op = "put" /\ lastOp.id > 0
  /\ \E s \in 1..Len(selects) :
       /\ Len(selects[s].chs) = 2
       /\ selects[s].key = 2
       /\ selects[s].value = puts[lastOp.id].msg
       /\ selects[s].chs[2] = lastOp.ch
       /\ Registered(s) = {}
       /\ \E r \in 1..Len(selects) : r # s /\ Registered(r) # {}

\* the put accepted in this step
NewPut == puts'[Len(puts')]

\* the takes tk and selects sl that hold the message v as their result
HoldersIn(tk, sl, v) ==
  { <<"take", t>> : t \in { u \in 1..Len(tk) : tk[u].res = v } }
    \cup { <<"select", r>> : r \in { u \in 1..Len(sl) : sl[u].value = v } }

Holders(v) == HoldersIn(takes, selects, v)

\* C22 as stated: a pending select resolves exactly once, with the first put
\* or close that occurs on any channel of its set; a later put or close on
\* another channel of the set leaves its result as it is.
C22_FirstPutOrCloseWins ==
  [][\A s \in 1..Len(selects) :
       /\ selects[s].value # "pending" => selects'[s] = selects[s]
       /\ selects[s].value = "pending" =>
            \A k \in 1..Len(selects[s].chs) :
              /\ (PutAccepted /\ NewPut.ch = selects[s].chs[k]) =>
                   selects'[s].key = k /\ selects'[s].value = NewPut.msg
              /\ Closes(selects[s].chs[k]) =>
                   selects'[s].key = k /\ selects'[s].value = "closed"]_vars

\* C22 amended: a pending select resolves exactly once, with the first close
\* of a channel of its set or the first put on a channel of its set that
\* finds the select's registration the oldest reader waiting there; a put
\* that finds another reader older hands its message to that reader and the
\* select stays pending. A put or close that occurs after the select
\* resolved leaves its result as it is; a put's message is queued or handed
\* to one reader, and no message is the result of two consumers.
C22_OldestReaderWins ==
  /\ \A v \in Values : Cardinality(Holders(v)) <= 1
  /\ [][/\ \A p \in 1..Len(puts') :
             Cardinality(HoldersIn(takes', selects', puts'[p].msg)) <= 1
        /\ \A t \in 1..Len(takes') :
             takes'[t].res \in Values => \E p \in 1..Len(puts') : puts'[p].msg = takes'[t].res
        /\ \A r \in 1..Len(selects') :
             selects'[r].value \in Values =>
               \E p \in 1..Len(puts') : puts'[p].msg = selects'[r].value
        /\ \A s \in 1..Len(selects) :
             /\ selects[s].value # "pending" => selects'[s] = selects[s]
             /\ selects[s].value = "pending" =>
                  \A k \in 1..Len(selects[s].chs) :
                    LET c == selects[s].chs[k]
                    IN /\ (PutAccepted /\ NewPut.ch = c) =>
                            IF QueuePeek(readQueue[c]) = SelectReader(s, k)
                            THEN /\ selects'[s].key = k
                                 /\ selects'[s].value = NewPut.msg
                                 /\ NewPut.res = "true"
                            ELSE selects'[s] = selects[s]
                       /\ Closes(c) =>
                            selects'[s].key = k /\ selects'[s].value = "closed"
        /\ PutAccepted =>
             /\ \/ /\ \E e \in Range(messageQueue'[NewPut.ch]) : e.msg = NewPut.msg
                   /\ HoldersIn(takes', selects', NewPut.msg) = {}
                \/ /\ \A e \in Range(messageQueue'[NewPut.ch]) : e.msg # NewPut.msg
                   /\ Cardinality(HoldersIn(takes', selects', NewPut.msg)) = 1]_vars

\* a select that waited on two channels was resolved by a put on its first
\* channel; the put made afterwards on its second channel is queued there
C22_Witness ==
  /\ lastOp.op = "put" /\ lastOp.id > 1
  /\ \E s \in 1..Len(selects) :
       /\ Len(selects[s].chs) = 2
       /\ selects[s].key = 1
       /\ selects[s].value = puts[lastOp.id - 1].msg
       /\ puts[lastOp.id - 1].ch = selects[s].chs[1]
       /\ lastOp.ch = selects[s].chs[2]
       /\ QueueSize(messageQueue[lastOp.ch]) = 1
       /\ QueuePeek(messageQueue[lastOp.ch]).msg = puts[lastOp.id].msg

\* the selects that wait with a registration on c
WaitingSelects(c) ==
  { s \in 1..Len(selects) : selects[s].value = "pending" /\ c \in Registered(s) }

\* C23: a select pending on open, empty channels resolves to {key, closed
\* signal}, with the key of the channel closed first, in the very close() of
\* that channel; the close of a second channel of its set does not change it.
C23_CloseResolvesSelect ==
  [][\A c \in Chans :
       Closes(c) =>
         \A s \in 1..Len(selects) :
           (selects[s].value = "pending" /\ c \in Range(selects[s].chs)) =>
             /\ \A i \in 1..Len(selects[s].chs) :
                  /\ ~closed[selects[s].chs[i]]
                  /\ QueueSize(messageQueue[selects[s].chs[i]]) = 0
             /\ s \in WaitingSelects(c)
             /\ selects'[s].value = "closed"
             /\ selects[s].chs[selects'[s].key] = c
             /\ \A d \in Chans : s \notin WaitingSelects(d)'
             /\ selects'[s].chs = selects[s].chs]_vars

\* both channels of a select were closed, the second-listed first: the select
\* holds the closed signal under its second key
C23_Witness ==
  /\ lastOp.op = "close" /\ lastOp.ret = "undefined"
  /\ \E s \in 1..Len(selects) :
       /\ Len(selects[s].chs) = 2
       /\ selects[s].key = 2 /\ selects[s].value = "closed"
       /\ closed[selects[s].chs[1]] /\ closed[selects[s].chs[2]]
       /\ lastOp.ch = selects[s].chs[1]

\* C24 as stated: a select pending on open, empty channels resolves to
\* {key, value} for the first put made on any channel of its set; that put
\* resolves true at once and its message is not queued.
C24_FirstPutResolvesSelect ==
  [][\A s \in 1..Len(selects) :
       selects[s].value = "pending" =>
         \A k \in 1..Len(selects[s].chs) :
           (PutAccepted /\ NewPut.ch = selects[s].chs[k]) =>
             /\ selects'[s] = [selects[s] EXCEPT !.key = k, !.value = NewPut.msg]
             /\ NewPut.res = "true"
             /\ QueueSize(messageQueue'[NewPut.ch]) = 0]_vars

\* C24 amended: a select pending on open, empty channels resolves to
\* {key, value} for the first put made on a channel of its set on which its
\* registration is the oldest waiting reader; a put on a channel where an
\* older reader waits is handed to that reader and the select stays pending.
\* In both cases the put resolves true at once and its message is not queued.
C24_PutResolvesOldestSelect ==
  [][\A s \in 1..Len(selects) :
       selects[s].value = "pending" =>
         \A k \in 1..Len(selects[s].chs) :
           (PutAccepted /\ NewPut.ch = selects[s].chs[k]) =>
             /\ \A i \in 1..Len(selects[s].chs) :
                  /\ ~closed[selects[s].chs[i]]
                  /\ QueueSize(messageQueue[selects[s].chs[i]]) = 0
             /\ IF QueuePeek(readQueue[NewPut.ch]) = SelectReader(s, k)
                THEN selects'[s] = [selects[s] EXCEPT !.key = k, !.value = NewPut.msg]
                ELSE selects'[s] = selects[s]
             /\ NewPut.res = "true"
             /\ messageQueue' = messageQueue
             /\ QueueSize(readQueue'[NewPut.ch]) < QueueSize(readQueue[NewPut.ch])]_vars

\* a put on the second channel of a waiting select has just resolved it; the
\* put is true and both channels of the set are empty
C24_Witness ==
  /\ lastOp.op = "put" /\ lastOp.id > 0
  /\ puts[lastOp.id].res = "true"
  /\ \E s \in 1..Len(selects) :
       /\ selects[s] = [chs |-> selects[s].chs, key |-> 2, value |-> puts[lastOp.id].msg]
       /\ Len(selects[s].chs) = 2
       /\ \A i \in 1..2 : QueueSize(messageQueue[selects[s].chs[i]]) = 0
       /\ \A i \in 1..2 : ~closed[selects[s].chs[i]]

\* C25: select with an empty mapping fails with TypeError and changes
\* nothing: it registers no reader, creates no promise and leaves every
\* channel as it was; only selects over at least one channel return a promise.
C25_EmptySelectThrows ==
  /\ \A s \in 1..Len(selects) : Len(selects[s].chs) >= 1
  /\ [][/\ \A s \in 1..Len(selects') : Len(selects'[s].chs) >= 1
        /\ (lastOp'.op = "select" /\ Len(selects') = Len(selects)) =>
             /\ lastOp'.ret = "TypeError"
             /\ UNCHANGED core]_vars

\* select was called with an empty mapping while a take and a message waited
\* on the two channels
C25_Witness ==
  /\ lastOp.op = "select" /\ lastOp.ret = "TypeError"
  /\ \E c, d \in Chans :
       QueueSize(readQueue[c]) = 1 /\ QueueSize(messageQueue[d]) = 1

\* the results of the first n selects, as an iteration yields them
RECURSIVE SelectResults(_)
SelectResults(n) ==
  IF n = 0 THEN <<>>
  ELSE Append(SelectResults(n - 1), [key |-> selects[n].key, value |-> selects[n].value])

\* the calls of the iterator whose result the generator has received
IterReceived ==
  IF iter.state = "awaiting" THEN iter.cur - 1 ELSE iter.cur

SelectIterInv ==
  iter.kind = "select" =>
    /\ iter.cur = Len(selects)
    /\ \A i \in 1..Len(selects) : selects[i].chs = iter.chs
    /\ \A i \in 1..Len(iter.yielded) :
         /\ iter.yielded[i].value \in Values
         /\ iter.yielded[i].key \in 1..Len(iter.chs)
         /\ \E d \in Range(delivered[iter.chs[iter.yielded[i].key]]) :
              d.msg = iter.yielded[i].value
    /\ iter.state = "done" <=>
         (IterReceived = Len(selects) /\ selects[Len(selects)].value = "closed")
    /\ iter.yielded =
         SelectResults(IF iter.state = "done" THEN IterReceived - 1 ELSE IterReceived)

\* C26: iterating a select calls select again after each yielded result,
\* yields only {key, message} results, the results of its successive selects,
\* and ends at the first result that is the closed signal, which it does not
\* yield; once ended it calls select no more and yields nothing, even if
\* channels of its set hold or later receive messages.
C26_SelectIteration ==
  /\ SelectIterInv
  /\ [][/\ SelectIterInv'
        /\ (iter.kind = "select" /\ iter.state = "done") =>
             /\ iter' = iter
             /\ selects' = selects]_vars

\* an iteration over two channels yielded a message of each, ended when one
\* of them was closed, and the other received a message afterwards
C26_Witness ==
  /\ iter.kind = "select" /\ iter.state = "done"
  /\ Len(iter.chs) = 2
  /\ Len(iter.yielded) = 2
  /\ iter.yielded[1].key # iter.yielded[2].key
  /\ lastOp.op = "put" /\ lastOp.id = 3
  /\ \E i \in 1..2 :
       ~closed[iter.chs[i]] /\ QueueSize(messageQueue[iter.chs[i]]) = 1

\* the position of the message v in the order of all puts
MsgIndex(v) == CHOOSE i \in 1..Len(Payloads) : Payloads[i] = v

\* the results of the first n takes, as an iteration yields them
RECURSIVE TakeResults(_)
TakeResults(n) ==
  IF n = 0 THEN <<>>
  ELSE Append(TakeResults(n - 1), [key |-> 0, value |-> takes[n].res])

ChannelIterated == iter.kind \in {"channel", "take"}

\* the generator holds a message its take received and has not yielded yet
IterHoldsMessage ==
  iter.state = "awaiting" /\ takes[iter.cur].res \in Values

ChannelIterInv ==
  ChannelIterated =>
    /\ iter.cur = Len(takes)
    /\ \A t \in 1..Len(takes) : takes[t].ch = iter.ch
    /\ \A i \in 1..Len(iter.yielded) :
         /\ iter.yielded[i].value \in Values
         /\ \E p \in 1..Len(puts) :
              puts[p].ch = iter.ch /\ puts[p].msg = iter.yielded[i].value
         /\ \A j \in (i + 1)..Len(iter.yielded) :
              MsgIndex(iter.yielded[i].value) < MsgIndex(iter.yielded[j].value)
    /\ iter.state = "done" <=>
         /\ Len(takes) >= 1
         /\ IterReceived = Len(takes)
         /\ takes[Len(takes)].res = "closed"
    /\ iter.yielded =
         TakeResults(IF iter.state = "done" THEN IterReceived - 1 ELSE IterReceived)

\* the generator has begun: a generator over take() whose first result is
\* outstanding may not have been started by its consumer yet
IterRunning == iter.kind = "channel" \/ iter.cur > 1 \/ iter.state # "awaiting"

PendingPutsFalse ==
  Closes(iter.ch) =>
    \A p \in 1..Len(puts) :
      (puts[p].ch = iter.ch /\ puts[p].res = "pending") => puts'[p].res = "false"

UndeliveredPuts(c) ==
  { p \in 1..Len(puts) : puts[p].ch = c /\ Undelivered(p) }

SizeInv ==
  \A c \in Chans :
    /\ QueueSize(messageQueue[c]) =
         IF closed[c] THEN 0 ELSE Cardinality(UndeliveredPuts(c))
    /\ QueuedPuts(c) = IF closed[c] THEN {} ELSE UndeliveredPuts(c)

PutOutcomeFixed ==
  \A p \in 1..Len(puts) : puts[p].res # "pending" => puts'[p].res = puts[p].res

\* C29 as stated: the outcome of a put never changes once it resolved, so
\* closing a capacity-K channel that holds more than K messages leaves K puts
\* true, those of the K oldest messages, and resolves the puts of the
\* messages beyond capacity, and only those, to false.
C29_CloseKeepsKTrue ==
  [][/\ PutOutcomeFixed
     /\ \A c \in Chans :
          (Closes(c) /\ QueueSize(messageQueue[c]) > bufferSize[c]) =>
            \A j \in 1..QueueSize(messageQueue[c]) :
              puts'[Oldest(c, j).putCb].res =
                IF j <= bufferSize[c] THEN "true" ELSE "false"]_vars

\* C29 amended: the outcome of a put never changes once it resolved: a put
\* that resolved true when its message was absorbed stays true when the
\* message is consumed or discarded by close. Closing a channel leaves true
\* the puts of queued messages that had resolved, which are at most K and
\* among the K oldest, and resolves to false exactly the puts still pending,
\* which may include those of the K oldest messages.
C29_CloseKeepsAbsorbedTrue ==
  [][/\ PutOutcomeFixed
     /\ \A c \in Chans :
          Closes(c) =>
            /\ \A j \in 1..QueueSize(messageQueue[c]) :
                 LET p == Oldest(c, j).putCb
                 IN /\ puts'[p].res = IF puts[p].res = "true" THEN "true" ELSE "false"
                    /\ puts[p].res = "true" => j <= bufferSize[c]
            /\ \A p \in 1..Len(puts) :
                 (puts'[p].res = "false" /\ puts[p].res # "false") =>
                   (p \in QueuedPuts(c) /\ puts[p].res = "pending")]_vars

\* a channel of capacity 1 was closed holding two messages: the put of the
\* older had resolved true and stays true, the put of the newer resolved
\* false, and the put of a message consumed earlier is still true
C29_Witness ==
  \E c \in Chans :
    /\ closed[c] /\ bufferSize[c] = 1
    /\ lastOp.op = "close" /\ lastOp.ch = c /\ lastOp.ret = "undefined"
    /\ \E p, q, r \in 1..Len(puts) :
         /\ p < q /\ q < r
         /\ puts[p].ch = c /\ puts[p].res = "true" /\ ~Undelivered(p)
         /\ puts[q].ch = c /\ puts[q].res = "true" /\ Undelivered(q)
         /\ puts[r].ch = c /\ puts[r].res = "false" /\ Undelivered(r)

\* the result the reader r holds in the takes tk and the selects sl
ReaderResult(tk, sl, r) ==
  IF r.kind = "take" THEN [key |-> 0, value |-> tk[r.id].res]
  ELSE [key |-> sl[r.id].key, value |-> sl[r.id].value]

\* C30: a put on an open channel with a reader waiting removes the reader
\* that waited longest (of the takes the one issued first, of the selects the
\* one issued first) and hands it the value, resolves true, and leaves the
\* message queue, which is empty, as it was; no other reader receives
\* anything.
C30_PutFeedsOldestReader ==
  [][\A c \in Chans :
       (PutAccepted /\ NewPut.ch = c /\ QueueSize(readQueue[c]) > 0) =>
         LET r == QueuePeek(readQueue[c])
         IN /\ \A i \in 1..Len(readQueue[c]) :
                 readQueue[c][i].kind = r.kind => r.id <= readQueue[c][i].id
            /\ ReaderResult(takes, selects, r).value = "pending"
            /\ ReaderResult(takes', selects', r) =
                 [key |-> r.key, value |-> NewPut.msg]
            /\ r \notin Range(readQueue'[c])
            /\ Range(readQueue'[c]) \subseteq Range(readQueue[c])
            /\ \A i \in 1..Len(readQueue'[c]) :
                 ReaderResult(takes', selects', readQueue'[c][i]).value = "pending"
            /\ NewPut.res = "true"
            /\ messageQueue' = messageQueue
            /\ QueueSize(messageQueue'[c]) = 0
            /\ ~closed[c]]_vars

\* a put was handed to the first of two takes that waited on its channel;
\* the second still waits
C30_Witness ==
  \E c \in Chans :
    /\ lastOp.op = "put" /\ lastOp.ch = c /\ lastOp.id > 0
    /\ puts[lastOp.id].res = "true"
    /\ QueueSize(messageQueue[c]) = 0
    /\ \E t, u \in 1..Len(takes) :
         /\ t < u
         /\ takes[t].ch = c /\ takes[t].res = puts[lastOp.id].msg
         /\ takes[u].ch = c /\ takes[u].res = "pending"
         /\ readQueue[c] = <<TakeReader(u)>>

\* C31: take() on an open channel that holds a message resolves at once to
\* the oldest queued message (the one with the smallest sequence number),
\* removes exactly that message, resolves its put to true if it was pending,
\* leaves every other put as it was and registers no reader.
C31_TakeReadsOldest ==
  [][\A c \in Chans :
       (TakeIssued(c) /\ ~closed[c] /\ QueueSize(messageQueue[c]) > 0) =>
         LET t == takes'[Len(takes')]
             e == Oldest(c, 1)
         IN /\ t.res = e.msg
            /\ ~t.handle
            /\ lastOp'.ret = e.msg
            /\ \A f \in Range(messageQueue[c]) : e.ts <= f.ts
            /\ Range(messageQueue'[c]) = Range(messageQueue[c]) \ {e}
            /\ QueueSize(messageQueue'[c]) = QueueSize(messageQueue[c]) - 1
            /\ puts[e.putCb].res \in {"pending", "true"}
            /\ puts'[e.putCb].res = "true"
            /\ \A p \in 1..Len(puts) : p # e.putCb => puts'[p] = puts[p]
            /\ readQueue' = readQueue]_vars

\* a take on an unbuffered channel that held two messages returned the older
\* one, whose put was pending until then, and left the newer one queued
C31_Witness ==
  \E c \in Chans :
    /\ bufferSize[c] = 0 /\ ~closed[c]
    /\ lastOp.op = "take" /\ lastOp.ch = c /\ lastOp.ret \in Values
    /\ ~takes[lastOp.id].handle
    /\ QueueSize(messageQueue[c]) = 1
    /\ puts[QueuePeek(messageQueue[c]).putCb].res = "pending"
    /\ \E p \in 1..Len(puts) :
         /\ puts[p].msg = lastOp.ret /\ puts[p].res = "true"
         /\ p < QueuePeek(messageQueue[c]).putCb

\* C33: read() on an open channel that holds a message removes and returns
\* the oldest one and resolves its put to true; on an empty or closed channel
\* it returns no value and changes nothing; it never registers a reader nor
\* settles a take or a select.
C33_ReadNeverSuspends ==
  [][\A c \in Chans :
       (lastOp'.op = "read" /\ lastOp'.ch = c) =>
         /\ readQueue' = readQueue
         /\ takes' = takes
         /\ selects' = selects
         /\ closed' = closed
         /\ IF ~closed[c] /\ QueueSize(messageQueue[c]) > 0
            THEN LET e == Oldest(c, 1)
                 IN /\ lastOp'.ret = e.msg
                    /\ \A f \in Range(messageQueue[c]) : e.ts <= f.ts
                    /\ Range(messageQueue'[c]) = Range(messageQueue[c]) \ {e}
                    /\ QueueSize(messageQueue'[c]) = QueueSize(messageQueue[c]) - 1
                    /\ puts'[e.putCb].res = "true"
                    /\ \A p \in 1..Len(puts) : p # e.putCb => puts'[p] = puts[p]
                    /\ \A d \in Chans \ {c} : messageQueue'[d] = messageQueue[d]
            ELSE /\ lastOp'.ret = "undefined"
                 /\ UNCHANGED core]_vars

\* a read returned the older of two queued messages and the next read, on
\* the channel closed in between, returned nothing
C33_Witness ==
  \E c \in Chans :
    /\ lastOp = [op |-> "read", ch |-> c, id |-> 0, ret |-> "undefined"]
    /\ closed[c]
    /\ Len(delivered[c]) = 1
    /\ \E p \in 1..Len(puts) : puts[p].ch = c /\ puts[p].res = "false"
    /\ takes = <<>> /\ selects = <<>>

\* the sequence numbers handed out so far that are still on record: those of
\* the queued messages and of the delivered ones
SeqNumbers(mq, dl) ==
  UNION { { mq[c][i].ts : i \in 1..Len(mq[c]) } \cup
          { dl[c][i].ts : i \in 1..Len(dl[c]) } : c \in Chans }

\* the sequence number the put of this step took
NewPutTs ==
  LET c == NewPut.ch
  IN IF Len(delivered'[c]) > Len(delivered[c])
     THEN delivered'[c][Len(delivered'[c])].ts
     ELSE messageQueue'[c][1].ts

\* C34: every put on an open channel, handed to a reader or enqueued, takes
\* a sequence number greater than that of every earlier put; so within a
\* message queue the numbers increase strictly from oldest to newest and no
\* two queued messages, on any channels, share a number.
C34_FreshSequenceNumbers ==
  [][/\ totalOrder' >= totalOrder
     /\ (lastOp'.op = "put" /\ lastOp'.ret = "promise") =>
          /\ PutAccepted
          /\ NewPutTs = totalOrder
          /\ totalOrder' > NewPutTs
          /\ \A n \in SeqNumbers(messageQueue, delivered) : n < NewPutTs
     /\ ~(lastOp'.op = "put" /\ lastOp'.ret = "promise") =>
          /\ totalOrder' = totalOrder
          /\ SeqNumbers(messageQueue', delivered')
               \subseteq SeqNumbers(messageQueue, delivered)
     /\ \A n \in SeqNumbers(messageQueue', delivered') : n < totalOrder'
     /\ \A c \in Chans : \A i, j \in 1..Len(messageQueue'[c]) :
          i < j => messageQueue'[c][i].ts > messageQueue'[c][j].ts
     /\ \A c, d \in Chans :
          \A i \in 1..Len(messageQueue'[c]) : \A j \in 1..Len(messageQueue'[d]) :
            messageQueue'[c][i].ts = messageQueue'[d][j].ts => (c = d /\ i = j)
    ]_vars

\* puts on both channels, one handed to a waiting take and two enqueued on
\* different channels
C34_Witness ==
  /\ Len(puts) = 3 /\ totalOrder = 3
  /\ \E c, d \in Chans :
       /\ c # d
       /\ QueueSize(messageQueue[c]) = 1 /\ QueueSize(messageQueue[d]) = 1
       /\ messageQueue[c][1].ts < messageQueue[d][1].ts
       /\ Len(delivered[c]) + Len(delivered[d]) = 1

\* the channels whose message queue differs between the two states of a step
ChangedMessageQueues == { c \in Chans : messageQueue'[c] # messageQueue[c] }

\* C37: a select that returns at once leaves the other channels alone: on a
\* closed channel it consumes no message and registers no reader anywhere;
\* with a queued message it removes that one message from one channel and
\* leaves the message and reader queues of all other channels as they were.
C37_ImmediateSelectFrame ==
  [][\A m \in MappingsOf(Chans) :
       (SelectIssued(m) /\ lastOp'.op = "select" /\ lastOp'.ret # "pending") =>
         LET r == selects'[Len(selects')]
         IN /\ readQueue' = readQueue
            /\ takes' = takes /\ closed' = closed
            /\ \A s \in 1..Len(selects) : selects'[s] = selects[s]
            /\ IF r.value = "closed"
               THEN /\ closed[m[r.key]]
                    /\ messageQueue' = messageQueue
                    /\ puts' = puts /\ delivered' = delivered
               ELSE LET c == m[r.key]
                        e == Oldest(c, 1)
                    IN /\ r.value = e.msg /\ lastOp'.ret = e.msg
                       /\ ChangedMessageQueues = {c}
                       /\ messageQueue'[c] =
                            SubSeq(messageQueue[c], 1, Len(messageQueue[c]) - 1)
                       /\ \A p \in 1..Len(puts) :
                            p # e.putCb => puts'[p] = puts[p]]_vars

\* a select over two channels that each held one message returned the older
\* one: it left its channel, the other message stayed queued
C37_Witness ==
  \E c, d \in Chans :
    /\ c # d
    /\ lastOp.op = "select" /\ lastOp.ch = c /\ lastOp.ret \in Values
    /\ selects[Len(selects)].chs \in {<<c, d>>, <<d, c>>}
    /\ QueueSize(messageQueue[c]) = 0
    /\ QueueSize(messageQueue[d]) = 1
    /\ Len(delivered[c]) = 1 /\ delivered[d] = <<>>

\* the registrations that leave the reader queue of c in this step
Left(c) == Range(readQueue[c]) \ Range(readQueue'[c])

\* the registration r on c is invoked in this step: it leaves the queue and
\* its take, or its select under its own key, holds a result afterwards
Invoked(c, r) ==
  /\ r \in Left(c)
  /\ IF r.kind = "take" THEN takes'[r.id].res # "pending"
     ELSE selects'[r.id].value # "pending" /\ selects'[r.id].key = r.key

\* the registration r on c is withdrawn in this step: by the handle of its
\* take, or as a registration of a select that another key resolved
Withdrawn(c, r) ==
  /\ r \in Left(c)
  /\ IF r.kind = "take"
     THEN /\ lastOp'.op = "dispose" /\ lastOp'.id = r.id
          /\ takes'[r.id].res = "pending" /\ takes'[r.id].withdrawn
     ELSE selects'[r.id].value # "pending" /\ selects'[r.id].key # r.key

\* C35: a reader registration is invoked at most once, by one put or close;
\* once withdrawn (a cancelled take, a losing registration of a select) it
\* is never invoked: a later put is queued or goes to the next reader and a
\* later close does not resolve it.
C35_InvokedAtMostOnce ==
  [][/\ \A c \in Chans : \A r \in Range(readQueue[c]) :
          /\ ReaderResult(takes, selects, r).value = "pending"
          /\ r \in Left(c) =>
               \/ /\ Invoked(c, r)
                  /\ \/ /\ lastOp'.op = "put" /\ lastOp'.ch = c /\ PutAccepted
                        /\ ReaderResult(takes', selects', r).value = NewPut.msg
                     \/ /\ Closes(c)
                        /\ ReaderResult(takes', selects', r).value = "closed"
               \/ Withdrawn(c, r)
     /\ lastOp'.op = "put" =>
          Cardinality({ x \in UNION { {c} \X Range(readQueue[c]) : c \in Chans } :
                          Invoked(x[1], x[2]) }) <= 1
     \* only a new take or select registers, each registration once
     /\ \A c \in Chans :
          /\ \A r \in Range(readQueue'[c]) \ Range(readQueue[c]) :
               IF r.kind = "take" THEN r.id = Len(takes) + 1
               ELSE r.id = Len(selects) + 1
          /\ \A i, j \in 1..Len(readQueue'[c]) :
               i # j => readQueue'[c][i] # readQueue'[c][j]
          /\ \A r \in Range(readQueue'[c]) :
               /\ ReaderResult(takes', selects', r).value = "pending"
               /\ r.kind = "take" => ~takes'[r.id].withdrawn
     \* a result, once set, stays; a withdrawn take stays unresolved
     /\ \A t \in 1..Len(takes) :
          /\ takes[t].res # "pending" => takes'[t] = takes[t]
          /\ takes[t].withdrawn =>
               /\ takes'[t] = takes[t] /\ takes[t].res = "pending"
               /\ (PutAccepted /\ NewPut.ch = takes[t].ch) =>
                    \/ QueueSize(messageQueue'[NewPut.ch]) =
                         QueueSize(messageQueue[NewPut.ch]) + 1
                    \/ \E r \in Range(readQueue[NewPut.ch]) :
                         r # TakeReader(t) /\ Invoked(NewPut.ch, r)
     /\ \A s \in 1..Len(selects) :
          selects[s].value # "pending" => selects'[s] = selects[s]]_vars

\* a take was cancelled through its handle; the put that followed was queued
\* and the close after it left the take unresolved
C35_Witness ==
  \E c \in Chans :
    /\ Len(takes) = 1 /\ takes[1].ch = c
    /\ takes[1].withdrawn /\ takes[1].res = "pending"
    /\ closed[c] /\ lastOp.op = "close" /\ lastOp.ret = "undefined"
    /\ \E p \in 1..Len(puts) : puts[p].ch = c /\ puts[p].res \in {"true", "false"}
    /\ delivered[c] = <<>>

QueuedCount(mq, p) ==
  Cardinality({ x \in UNION { {c} \X (1..Len(mq[c])) : c \in Chans } :
                  mq[x[1]][x[2]].putCb = p })

\* how often the message of the put p was handed to a consumer, by the log dl
DeliveredCount(dl, p) ==
  Cardinality({ x \in UNION { {c} \X (1..Len(dl[c])) : c \in Chans } :
                  dl[x[1]][x[2]].ts = p - 1 })

\* the message of the put p is in exactly one of three states: delivered
\* once, queued once on its open channel, discarded by the close of its channel
Conserved(ps, mq, dl, cl, tk, sl, p) ==
  LET q == QueuedCount(mq, p)
      d == DeliveredCount(dl, p)
      h == HoldersIn(tk, sl, ps[p].msg)
  IN /\ q + d <= 1
     /\ Cardinality(h) <= d
     /\ q = 1 => /\ ~cl[ps[p].ch]
                 /\ \E i \in 1..Len(mq[ps[p].ch]) : mq[ps[p].ch][i].putCb = p
     /\ d = 1 => \E i \in 1..Len(dl[ps[p].ch]) : dl[ps[p].ch][i].ts = p - 1
     /\ (q = 0 /\ d = 0) => cl[ps[p].ch]

\* C38: over any sequence of put, take, read, select and close every
\* accepted message is in exactly one state: delivered to one consumer (a
\* take, a read or a select), still queued, or discarded by close; none is
\* delivered twice and none disappears while its channel is open.
C38_MessageConservation ==
  [][/\ \A p \in 1..Len(puts') :
          Conserved(puts', messageQueue', delivered', closed', takes', selects', p)
     /\ \A p \in 1..Len(puts) :
          /\ puts'[p].msg = puts[p].msg /\ puts'[p].ch = puts[p].ch
          \* what was delivered stays with its consumer
          /\ DeliveredCount(delivered, p) = 1 =>
               /\ DeliveredCount(delivered', p) = 1
               /\ HoldersIn(takes', selects', puts[p].msg) = Holders(puts[p].msg)
          \* a queued message leaves the queue to one consumer, or by close
          /\ (QueuedCount(messageQueue, p) = 1 /\ QueuedCount(messageQueue', p) = 0) =>
               IF DeliveredCount(delivered', p) = 1
               THEN \/ /\ lastOp'.op = "read" /\ lastOp'.ret = puts[p].msg
                       /\ HoldersIn(takes', selects', puts[p].msg) = {}
                    \/ /\ lastOp'.op \in {"take", "select"}
                       /\ Cardinality(HoldersIn(takes', selects', puts[p].msg)) = 1
               ELSE Closes(puts[p].ch)
     \* a message handed to a waiting reader has that one consumer
     /\ (PutAccepted /\ DeliveredCount(delivered', Len(puts')) = 1) =>
          Cardinality(HoldersIn(takes', selects', NewPut.msg)) = 1]_vars

\* of three messages put on a channel one went to a take, one to a select
\* and the third was discarded by close
C38_Witness ==
  \E c \in Chans :
    /\ closed[c] /\ lastOp.op = "close"
    /\ Len(puts) = 3 /\ \A p \in 1..3 : puts[p].ch = c
    /\ Len(takes) = 1 /\ takes[1].res = puts[1].msg
    /\ Len(selects) = 1 /\ selects[1].value = puts[2].msg
    /\ DeliveredCount(delivered, 1) = 1 /\ DeliveredCount(delivered, 2) = 1
    /\ DeliveredCount(delivered, 3) = 0 /\ QueuedCount(messageQueue, 3) = 0

\* the readers of a reader queue in the order in which pop hands them out
RECURSIVE ServiceOrder(_)
ServiceOrder(items) ==
  IF QueueSize(items) = 0 THEN <<>>
  ELSE LET p == QueuePop(items) IN <<p.item>> \o ServiceOrder(p.rest)

\* the readers registered on c in this step
Joined(c) == Range(readQueue'[c]) \ Range(readQueue[c])

\* C32: the waiting readers of a channel are served in registration order:
\* a reader registers behind all readers that wait, a put serves the reader
\* that waits longest, and readers leave the order only by being served or
\* withdrawn; so readers r1..rn registered in that order receive the values
\* v1..vn put afterwards, and no reader receives a value while a reader
\* registered earlier and not withdrawn still waits.
C32_ReadersServedInOrder ==
  [][/\ \A c \in Chans :
          LET before == ServiceOrder(readQueue[c])
              after == ServiceOrder(readQueue'[c])
              stay == SelectSeq(before, LAMBDA r : r \in Range(readQueue'[c]))
          IN /\ Cardinality(Joined(c)) <= 1
             /\ IF Joined(c) = {} THEN after = stay
                ELSE /\ after = Append(before, after[Len(after)])
                     /\ after[Len(after)] \in Joined(c)
             /\ (PutAccepted /\ NewPut.ch = c /\ Len(before) > 0) =>
                  /\ Invoked(c, before[1])
                  /\ ReaderResult(takes', selects', before[1]).value = NewPut.msg
                  /\ \A i \in 2..Len(before) :
                       /\ ~Invoked(c, before[i])
                       /\ before[i] \in Range(readQueue'[c]) =>
                            ReaderResult(takes', selects', before[i]).value = "pending"
     /\ \A t, u \in 1..Len(takes') :
          (t < u /\ takes'[t].ch = takes'[u].ch /\ takes'[u].res \in Values) =>
            \/ takes'[t].withdrawn
            \/ /\ takes'[t].res \in Values
               /\ MsgIndex(takes'[t].res) < MsgIndex(takes'[u].res)
     /\ \A s, r \in 1..Len(selects') :
          (/\ s < r /\ Len(selects'[s].chs) = 1 /\ selects'[r].chs = selects'[s].chs
           /\ selects'[r].value \in Values) =>
            /\ selects'[s].value \in Values
            /\ MsgIndex(selects'[s].value) < MsgIndex(selects'[r].value)]_vars

\* a take, a select and a second take waited on an empty channel; of the
\* three values put the first take received the first, the select the
\* second and the second take the third
C32_Witness ==
  \E c \in Chans :
    /\ Len(puts) = 3 /\ \A p \in 1..3 : puts[p].ch = c /\ puts[p].res = "true"
    /\ bufferSize[c] = 0 /\ ~closed[c]
    /\ Len(takes) = 2 /\ Len(selects) = 1
    /\ takes[1].handle /\ takes[2].handle
    /\ takes[1].res = puts[1].msg
    /\ selects[1].value = puts[2].msg
    /\ takes[2].res = puts[3].msg
    /\ lastOp.op = "put" /\ lastOp.id = 3

\* C39: invoking the function a push returned removes exactly the entry
\* that push inserted, wherever it sits, and keeps the order of the others;
\* when that entry was already popped or withdrawn it removes nothing, also
\* when an equal item was pushed again in the meantime.
C39_WithdrawRemovesOwnEntry ==
  [][lastOp'.op = "qwithdraw" =>
       /\ queue'.entries = SelectSeq(queue.entries, LAMBDA e : e # lastOp'.id)
       /\ Len(queue'.items) = Len(queue'.entries)
       /\ \A i \in 1..Len(queue'.entries) :
            queue'.items[i] = queue.tokens[queue'.entries[i]]]_vars

====
